---------------------------- MODULE Spec2Model ----------------------------
(***************************************************************************)
(* A model of the UI interaction state of stocker (src/src/app.rs):        *)
(* MenuState<T>, the target-area registry of UiState with its hit tests,   *)
(* and the date-range arithmetic of UiState.                               *)
(*                                                                         *)
(* Option<T> is modelled as a sequence of length 0 or 1: None is << >>,    *)
(* Some(v) is <<v>>.  Vec indices are 0-based as in the source; the item   *)
(* at index i of a Vec modelled by the sequence s is s[i + 1].             *)
(***************************************************************************)
EXTENDS Integers, Sequences, FiniteSets, TLC

None == << >>
Some(v) == <<v>>
IsSome(o) == o # None
Unwrap(o) == o[1]

Min(a, b) == IF a <= b THEN a ELSE b
Max(a, b) == IF a >= b THEN a ELSE b

(***************************************************************************)
(* Bounds of the model.                                                    *)
(***************************************************************************)
\* The longest item list a MenuState is constructed with.
MaxItems == 3
\* The number of threads that share one MenuState through &self.
NumThreads == 2

Threads == 1 .. NumThreads
\* The item values of the menus of the menu specification.
ItemSet == {"A", "B"}
\* An item that no constructed list holds.
AbsentItem == "Z"

VARIABLES
    items,      \* MenuState::items
    selected,   \* MenuState::list_state: ListState::selected, an Option<usize>
    menu_pc,    \* per thread: "idle", or the navigation call that has read
                \* the selection and has not yet written
    menu_rd,    \* per thread: the index that call read
    menu_ev,    \* the last step of a menu call: who, what, what it saw
    target_areas,  \* UiState::target_areas: OrdMap<UiTarget, Rect>
    since_clear,   \* the targets passed to set_target_area since the last
                   \* clear_target_areas (since construction if there was none)
    reg_ev,        \* the last call on the registry, with what it returned
    mi_ev,         \* the last call of menu_index, with what it returned
    time_frame,    \* UiState::time_frame
    start_date,    \* UiState::start_date: Option<DateTime<Utc>>
    end_date,      \* UiState::end_date: Option<DateTime<Utc>>
    date_ev,       \* the last call on the time frame or the date range
    panicked,      \* a call has panicked: the thread of the UI has unwound
    frames,          \* FrameRateCounter::frames: AtomicU16
    frame_time,      \* FrameRateCounter::frame_time: AtomicU16, milliseconds
    last_interval,   \* FrameRateCounter::last_interval, in milliseconds
    update_interval, \* FrameRateCounter::update_interval, in milliseconds
    clock,           \* the last value Utc::now() returned, in milliseconds
    fc_pc,           \* per thread: the statement of incr it is at, or "idle"
    fc_loc,          \* per thread: the locals of incr (now, frames, frame_time)
    fc_count,        \* the calls of incr since the last reset of frames
    fc_calls,        \* the calls of incr made in this behaviour
    fc_total,        \* the increments made by all calls of incr
    fc_sampled,      \* the sum of the frame counts the samples were computed from
    fc_last,         \* what the last call of incr that returned a sample returned
    fc_stored,       \* the values that were stored into frame_time
    fc_ev,           \* the last call on the counter, with what it returned
    tf_shown,      \* the last TimeFrame formatted, with its text
    tf_parsed,     \* the last text parsed as a TimeFrame, with the result
    lay_prev,      \* the target areas the previous layout pass left
    lay_plan,      \* the target areas the layout pass under way reports
    lay_pending,   \* the targets the layout pass has yet to report
    lay_order,     \* the targets reported since the clear, in order
    lay_passes,    \* the layout passes begun
    lay_seen       \* the map the last target_area call read

menu_vars == <<items, selected, menu_pc, menu_rd, menu_ev>>
reg_vars == <<target_areas, since_clear, reg_ev>>
date_vars == <<time_frame, start_date, end_date, date_ev>>
frame_vars == <<frames, frame_time, last_interval, update_interval, clock,
                fc_pc, fc_loc, fc_count, fc_calls, fc_total, fc_sampled,
                fc_last, fc_stored, fc_ev>>
text_vars == <<tf_shown, tf_parsed>>
layout_vars == <<lay_prev, lay_plan, lay_pending, lay_order, lay_passes, lay_seen>>

vars == <<items, selected, menu_pc, menu_rd, menu_ev,
          target_areas, since_clear, reg_ev, mi_ev,
          time_frame, start_date, end_date, date_ev, panicked,
          frames, frame_time, last_interval, update_interval, clock,
          fc_pc, fc_loc, fc_count, fc_calls, fc_total, fc_sampled,
          fc_last, fc_stored, fc_ev, tf_shown, tf_parsed,
          lay_prev, lay_plan, lay_pending, lay_order, lay_passes, lay_seen>>

(***************************************************************************)
(* MenuState<T>                                                            *)
(***************************************************************************)

\* All sequences over S of length 0 .. n.
SeqsUpTo(S, n) == UNION {[1 .. k -> S] : k \in 0 .. n}

\* Iterator::position: the index of the first element satisfying the
\* predicate (here: equality with item), None when there is none.
RECURSIVE PositionFrom(_, _, _)
PositionFrom(its, item, i) ==
    IF i >= Len(its) THEN None
    ELSE IF its[i + 1] = item THEN Some(i)
    ELSE PositionFrom(its, item, i + 1)

PositionLast(its, item) ==
    IF \E i \in 0 .. Len(its) - 1 : its[i + 1] = item
    THEN Some(CHOOSE i \in 0 .. Len(its) - 1 :
                /\ its[i + 1] = item
                /\ \A j \in 0 .. Len(its) - 1 : its[j + 1] = item => j <= i)
    ELSE None

Position(its, item) == PositionFrom(its, item, 0)

\* MenuState::selected(): a copy of the selected item.  Indexing a Vec out
\* of range panics; "panic" stands for that outcome.
MenuSelected(its, sel) ==
    IF sel = None THEN None
    ELSE IF Unwrap(sel) < Len(its) THEN Some(its[Unwrap(sel) + 1])
    ELSE Some("panic")

\* `.selected().with_context(..)?` of select_prev and select_next: the
\* selection read under the read lock, an error when it is None.
ReadSelectedOrZero(sel) ==
    IF sel = None THEN [ok |-> TRUE, n |-> 0] ELSE [ok |-> TRUE, n |-> Unwrap(sel)]

ReadSelected(sel) ==
    IF sel = None THEN [ok |-> FALSE, n |-> 0] ELSE [ok |-> TRUE, n |-> Unwrap(sel)]

\* The index select_prev writes after reading n, None when it writes nothing.
PrevTarget(n, len) == IF n > 0 THEN Some(n - 1) ELSE None

\* The index select_next writes after reading n, None when it writes nothing.
NextUnclamped(n, len) == Some(n + 1)

NextWrapping(n, len) == IF n < len - 1 THEN Some(n + 1) ELSE Some(0)

NextTarget(n, len) == IF n < len - 1 THEN Some(n + 1) ELSE None

Event(t, op, phase, arg, saw, pre, res) ==
    [thread |-> t, op |-> op, phase |-> phase, arg |-> arg,
     saw |-> saw, pre |-> pre, res |-> res]

NoEvent == Event(0, "new", "done", None, None, None, "Ok")

\* MenuState::new
MenuNew(its) ==
    /\ items = its
    /\ selected = None
    /\ menu_pc = [t \in Threads |-> "idle"]
    /\ menu_rd = [t \in Threads |-> 0]
    /\ menu_ev = NoEvent

\* MenuState::select: position() on the immutable list, then select_nth(n)
\* under the write lock; "item not found" leaves the lock untouched.
Select(t, item) ==
    /\ menu_pc[t] = "idle"
    /\ LET n == Position(items, item) IN
        IF n = None
        THEN /\ menu_ev' = Event(t, "select", "done", Some(item), None, selected, "NotFound")
             /\ UNCHANGED selected
        ELSE /\ selected' = Some(Unwrap(n))
             /\ menu_ev' = Event(t, "select", "done", Some(item), None, selected, "Ok")
    /\ UNCHANGED <<items, menu_pc, menu_rd>>

\* MenuState::clear_selection
ClearSelection(t) ==
    /\ menu_pc[t] = "idle"
    /\ selected' = None
    /\ menu_ev' = Event(t, "clear_selection", "done", None, None, selected, "Ok")
    /\ UNCHANGED <<items, menu_pc, menu_rd>>

\* The first half of select_prev and select_next: the selection is read
\* under the read lock, which is released at the end of the statement.
NavRead(t, op) ==
    /\ menu_pc[t] = "idle"
    /\ LET r == ReadSelected(selected) IN
        IF r.ok
        THEN /\ menu_pc' = [menu_pc EXCEPT ![t] = op]
             /\ menu_rd' = [menu_rd EXCEPT ![t] = r.n]
             /\ menu_ev' = Event(t, op, "read", None, selected, selected, "Pending")
        ELSE /\ menu_ev' = Event(t, op, "done", None, selected, selected, "NoSelection")
             /\ UNCHANGED <<menu_pc, menu_rd>>
    /\ UNCHANGED <<items, selected>>

\* The second half: select_nth under the write lock when the index read is
\* not at the bound, then Ok(()).
NavWrite(t, op, target) ==
    /\ menu_pc[t] = op
    /\ selected' = IF target = None THEN selected ELSE target
    /\ menu_pc' = [menu_pc EXCEPT ![t] = "idle"]
    /\ menu_rd' = [menu_rd EXCEPT ![t] = 0]
    /\ menu_ev' = Event(t, op, "done", None, Some(menu_rd[t]), selected, "Ok")
    /\ UNCHANGED items

SelectPrevRead(t) == NavRead(t, "select_prev")
SelectPrevWrite(t) == NavWrite(t, "select_prev", PrevTarget(menu_rd[t], Len(items)))
SelectNextRead(t) == NavRead(t, "select_next")
SelectNextWrite(t) == NavWrite(t, "select_next", NextTarget(menu_rd[t], Len(items)))

(***************************************************************************)
(* UiTarget and the registry of target areas                               *)
(***************************************************************************)

UiTarget == {"StockName", "StockSymbol", "StockSymbolInput", "TimeFrame", "TimeFrameMenu"}

\* `*self as isize`: the position of the variant in the declaration.
Discriminant(t) ==
    CASE t = "StockName" -> 0
      [] t = "StockSymbol" -> 1
      [] t = "StockSymbolInput" -> 2
      [] t = "TimeFrame" -> 3
      [] t = "TimeFrameMenu" -> 4

\* UiTarget::zindex
zindex(t) ==
    CASE t = "StockName" -> 0
      [] t = "StockSymbol" -> 0
      [] t = "StockSymbolInput" -> 1
      [] t = "TimeFrame" -> 0
      [] t = "TimeFrameMenu" -> 1

\* Ord for UiTarget: cmp(a, b) = Less.
CmpLess(a, b) ==
    \/ zindex(a) < zindex(b)
    \/ zindex(a) = zindex(b) /\ Discriminant(a) < Discriminant(b)

\* tui::layout::Rect, a library type: x, y, width, height in cells, with
\* left() = x, right() = x + width, top() = y, bottom() = y + height.  The
\* coordinates of the model stay far below 2^16, where the sums are exact.
Rect(x, y, w, h) == [x |-> x, y |-> y, width |-> w, height |-> h]
Left(r) == r.x
Right(r) == r.x + r.width
Top(r) == r.y
Bottom(r) == r.y + r.height

\* Rect::inner(&Margin { horizontal: 1, vertical: 1 }): the default (zero)
\* Rect when the margins do not fit, else the Rect shrunk by one cell on
\* every side.
Inner(r) ==
    IF r.width < 2 \/ r.height < 2 THEN Rect(0, 0, 0, 0)
    ELSE Rect(r.x + 1, r.y + 1, r.width - 2, r.height - 2)

\* The predicate of `find` in target_area, and the test of menu_index.
Hit(area, x, y) ==
    Left(area) <= x /\ Right(area) >= x /\ Top(area) <= y /\ Bottom(area) >= y

\* OrdMap::into_iter().rev(): the keys from the greatest to the least.
RECURSIVE RevKeys(_)
RevKeys(K) ==
    IF K = {} THEN << >>
    ELSE LET g == CHOOSE t \in K : \A u \in K \ {t} : CmpLess(u, t)
         IN  <<g>> \o RevKeys(K \ {g})

\* Iterator::find over (key, value) pairs.
RECURSIVE Find(_, _, _, _)
Find(keys, m, x, y) ==
    IF keys = << >> THEN None
    ELSE IF Hit(m[Head(keys)], x, y) THEN Some(<<Head(keys), m[Head(keys)]>>)
    ELSE Find(Tail(keys), m, x, y)

target_areaForward(m, x, y) ==
    LET ks == RevKeys(DOMAIN m)
    IN  Find([i \in 1 .. Len(ks) |-> ks[Len(ks) + 1 - i]], m, x, y)

\* UiState::target_area on a snapshot m of the map.
target_area(m, x, y) == Find(RevKeys(DOMAIN m), m, x, y)

\* OrdMap::insert: the value of an existing key is replaced.
Insert(m, t, area) == [u \in DOMAIN m \cup {t} |-> IF u = t THEN area ELSE m[u]]

\* OrdMap::clear
ClearBelowTop(m) == [u \in {t \in DOMAIN m : zindex(t) > 0} |-> m[u]]

Clear(m) == [u \in {} |-> Rect(0, 0, 0, 0)]

\* UiState::input_cursor for an input value of len characters.
input_cursor(m, len, target) ==
    IF target \notin DOMAIN m THEN None
    ELSE LET inner_area == Inner(m[target])
         IN  Some(<<Left(inner_area) + len, Top(inner_area)>>)

\* The rectangles the renderer reports; they overlap, touch and nest.
Origins == {0, 1}
Sizes == {1, 2}
RectSet == {Rect(x, 0, w, h) : x \in Origins, w \in Sizes, h \in Sizes}

\* The points of hit tests: the cells 0 .. MaxCoord in both directions, which
\* hold cells inside, on the far edge of and past the rectangles above.
MaxCoord == 2
Coords == 0 .. MaxCoord

\* The most targets one frame renders.
MaxRendered == 2

\* The longest value of the input box.
MaxInputLen == 1

RegEvent(op, target, area, x, y, ret) ==
    [op |-> op, target |-> target, area |-> area, x |-> x, y |-> y, ret |-> ret]

\* `target_areas: RwLock::new(ordmap! {})` of UiState::default
RegNew ==
    /\ target_areas = Clear(<< >>)
    /\ since_clear = {}
    /\ reg_ev = RegEvent("new", "-", None, 0, 0, None)

\* UiState::set_target_area
SetTargetArea(target, area) ==
    /\ Cardinality(DOMAIN target_areas \cup {target}) <= MaxRendered
    /\ target_areas' = Insert(target_areas, target, area)
    /\ since_clear' = since_clear \cup {target}
    /\ reg_ev' = RegEvent("set_target_area", target, Some(area), 0, 0, None)

\* UiState::clear_target_areas
ClearTargetAreas ==
    /\ target_areas' = Clear(target_areas)
    /\ since_clear' = {}
    /\ reg_ev' = RegEvent("clear_target_areas", "-", None,
                          Cardinality(DOMAIN target_areas), 0, None)

\* UiState::target_area: the map is cloned under the read lock and searched.
TargetArea(x, y) ==
    /\ reg_ev' = RegEvent("target_area", "-", None, x, y, target_area(target_areas, x, y))
    /\ UNCHANGED <<target_areas, since_clear>>

\* UiState::input_cursor
InputCursor(len, target) ==
    /\ reg_ev' = RegEvent("input_cursor", target, None, len, 0,
                          input_cursor(target_areas, len, target))
    /\ UNCHANGED <<target_areas, since_clear>>

(***************************************************************************)
(* UiState::menu_index                                                     *)
(***************************************************************************)

\* The results of menu_index: Some(n), None, or the panic of todo!().
IndexSome(n) == [kind |-> "Some", n |-> n]
IndexNone == [kind |-> "None", n |-> 0]
IndexPanic == [kind |-> "Panic", n |-> 0]

\* The test of menu_index on the inner area.
MenuHit(inner_area, x, y) ==
    /\ Left(inner_area) <= x /\ Right(inner_area) >= x
    /\ Top(inner_area) <= y /\ Bottom(inner_area) >= y

\* UiState::menu_index for a menu of len items.
menu_index(len, menu_area, x, y) ==
    LET inner_area == Inner(menu_area) IN
    IF MenuHit(inner_area, x, y)
    THEN IF inner_area.height < len THEN IndexPanic
         ELSE LET n == y - Top(inner_area)
              IN  IF n < len THEN IndexSome(n) ELSE IndexNone
    ELSE IndexNone

\* The largest side of a menu rectangle.
MaxMenuSide == 5
MenuRectSet ==
    {Rect(o, o, w, h) : o \in Origins, w \in 0 .. MaxMenuSide, h \in 0 .. MaxMenuSide}
MenuCoords == 0 .. MaxMenuSide + 2

MenuIndexEvent(op, area, x, y, ret) ==
    [op |-> op, area |-> area, x |-> x, y |-> y, ret |-> ret]

MenuIndexNew ==
    /\ mi_ev = MenuIndexEvent("new", Rect(0, 0, 0, 0), 0, 0, IndexNone)
    /\ panicked = FALSE

\* The arguments of a call of menu_index that is about to be made.
MenuIndexCall(menu_area, x, y) ==
    /\ mi_ev = MenuIndexEvent("call", menu_area, x, y, IndexNone)
    /\ panicked = FALSE

\* The call of menu_index on the menu state; a panic unwinds the caller.
MenuIndex ==
    /\ ~panicked
    /\ mi_ev.op = "call"
    /\ LET ret == menu_index(Len(items), mi_ev.area, mi_ev.x, mi_ev.y) IN
        /\ mi_ev' = MenuIndexEvent("menu_index", mi_ev.area, mi_ev.x, mi_ev.y, ret)
        /\ panicked' = (ret = IndexPanic)

(***************************************************************************)
(* TimeFrame and the date range of UiState                                 *)
(*                                                                         *)
(* A DateTime<Utc> is the number of seconds since 1970-01-01T00:00:00Z, a  *)
(* Duration a number of seconds, a Date<Utc> the number of the day.        *)
(***************************************************************************)

\* TimeFrame::iter(): the variants in the order of their declaration.
TimeFrameIter ==
    <<"FiveDays", "OneMonth", "ThreeMonths", "SixMonths", "YearToDate",
      "OneYear", "TwoYears", "FiveYears", "TenYears", "Max">>

TimeFrame == {TimeFrameIter[i] : i \in 1 .. Len(TimeFrameIter)}

SecondsPerDay == 86400

\* chrono::Duration::days
Days(n) == n * SecondsPerDay

durationWithYearToDate(tf) ==
    CASE tf = "FiveDays" -> Some(Days(5))
      [] tf = "OneMonth" -> Some(Days(30))
      [] tf = "ThreeMonths" -> Some(Days(30 * 3))
      [] tf = "SixMonths" -> Some(Days(30 * 6))
      [] tf = "YearToDate" -> Some(Days(365))
      [] tf = "OneYear" -> Some(Days(30 * 12))
      [] tf = "TwoYears" -> Some(Days(30 * 12 * 2))
      [] tf = "FiveYears" -> Some(Days(30 * 12 * 5))
      [] tf = "TenYears" -> Some(Days(30 * 12 * 10))
      [] OTHER -> None

\* TimeFrame::duration
duration(tf) ==
    CASE tf = "FiveDays" -> Some(Days(5))
      [] tf = "OneMonth" -> Some(Days(30))
      [] tf = "ThreeMonths" -> Some(Days(30 * 3))
      [] tf = "SixMonths" -> Some(Days(30 * 6))
      [] tf = "OneYear" -> Some(Days(30 * 12))
      [] tf = "TwoYears" -> Some(Days(30 * 12 * 2))
      [] tf = "FiveYears" -> Some(Days(30 * 12 * 5))
      [] tf = "TenYears" -> Some(Days(30 * 12 * 10))
      [] OTHER -> None

\* DateTime::date(): the calendar day (UTC) the instant falls in.
date(dt) == dt \div SecondsPerDay

\* Date::and_hms
and_hms(day, h, m, sec) == day * SecondsPerDay + h * 3600 + m * 60 + sec

\* end_date of shift_date_range_before
BeforeEndUnrounded(dt) == dt - Days(1)

BeforeEnd(dt) == and_hms(date(dt - Days(1)), 23, 59, 59)

\* start_date of shift_date_range_before
BeforeStartOneDayEarly(end, time_frame_duration) ==
    and_hms(date(end - time_frame_duration), 0, 0, 0)

BeforeStart(end, time_frame_duration) ==
    and_hms(date(end - time_frame_duration + Days(1)), 0, 0, 0)

\* start_date of shift_date_range_after
AfterStartSameDay(dt) == and_hms(date(dt), 0, 0, 0)

AfterStart(dt) == and_hms(date(dt + Days(1)), 0, 0, 0)

\* end_date of shift_date_range_after
AfterEnd(start, time_frame_duration) ==
    and_hms(date(start + time_frame_duration - Days(1)), 23, 59, 59)

\* pre: whether a date range was present when the call was made.
DateEvent(op, tf, dt, now, res) ==
    [op |-> op, tf |-> tf, dt |-> dt, now |-> now, res |-> res,
     pre |-> IsSome(start_date)]

\* The fields of UiState::default that hold the time frame and the range.
DateNew ==
    /\ time_frame = "OneMonth"
    /\ start_date = None
    /\ end_date = None
    /\ date_ev = [op |-> "default", tf |-> "OneMonth", dt |-> 0, now |-> 0,
                  res |-> "Ok", pre |-> FALSE]

\* UiState::shift_date_range_before; `expect` panics on a time frame
\* without a duration, before anything is assigned.
ShiftDateRangeBefore(dt) ==
    /\ ~panicked
    /\ IF duration(time_frame) = None
       THEN /\ panicked' = TRUE
            /\ date_ev' = DateEvent("shift_date_range_before", time_frame, dt, 0, "Panic")
            /\ UNCHANGED <<start_date, end_date>>
       ELSE LET time_frame_duration == Unwrap(duration(time_frame))
                end == BeforeEnd(dt)
                start == BeforeStart(end, time_frame_duration)
            IN  /\ start_date' = Some(start)
                /\ end_date' = Some(end)
                /\ date_ev' = DateEvent("shift_date_range_before", time_frame, dt, 0, "Ok")
                /\ UNCHANGED panicked
    /\ UNCHANGED time_frame

\* UiState::shift_date_range_after, with the value Utc::now() returns.
ShiftDateRangeAfter(dt, now) ==
    /\ ~panicked
    /\ IF duration(time_frame) = None
       THEN /\ panicked' = TRUE
            /\ date_ev' = DateEvent("shift_date_range_after", time_frame, dt, now, "Panic")
            /\ UNCHANGED <<start_date, end_date>>
       ELSE LET time_frame_duration == Unwrap(duration(time_frame))
                start == AfterStart(dt)
                end == AfterEnd(start, time_frame_duration)
            IN  /\ start_date' = IF end > now THEN None ELSE Some(start)
                /\ end_date' = IF end > now THEN None ELSE Some(end)
                /\ date_ev' = DateEvent("shift_date_range_after", time_frame, dt, now, "Ok")
                /\ UNCHANGED panicked
    /\ UNCHANGED time_frame

\* UiState::clear_date_range
ClearDateRange ==
    /\ ~panicked
    /\ start_date' = None
    /\ end_date' = None
    /\ date_ev' = DateEvent("clear_date_range", time_frame, 0, 0, "Ok")
    /\ UNCHANGED <<time_frame, panicked>>

SetTimeFrameKeepingRange(tf) ==
    /\ ~panicked
    /\ time_frame' = tf
    /\ selected' = Position(items, tf)
    /\ date_ev' = DateEvent("set_time_frame", tf, 0, 0, "Ok")
    /\ UNCHANGED <<items, menu_pc, menu_rd, menu_ev, panicked, start_date, end_date>>

\* UiState::set_time_frame: the frame is assigned, the menu selects it
\* (`?` returns the error of select before the range is cleared), the range
\* is cleared.
SetTimeFrame(tf) ==
    /\ ~panicked
    /\ time_frame' = tf
    /\ LET n == Position(items, tf) IN
        IF n = None
        THEN /\ date_ev' = DateEvent("set_time_frame", tf, 0, 0, "NotFound")
             /\ UNCHANGED <<selected, start_date, end_date>>
        ELSE /\ selected' = Some(Unwrap(n))
             /\ start_date' = None
             /\ end_date' = None
             /\ date_ev' = DateEvent("set_time_frame", tf, 0, 0, "Ok")
    /\ UNCHANGED <<items, menu_pc, menu_rd, menu_ev, panicked>>

\* Calls on the public field time_frame_menu_state from the input layer,
\* made between the calls that take &mut UiState.
MenuStateSelect(item) ==
    /\ ~panicked
    /\ Select(1, item)
    /\ date_ev' = DateEvent("time_frame_menu_state.select", time_frame, 0, 0, "Ok")
    /\ UNCHANGED <<time_frame, start_date, end_date, panicked>>

MenuStateClearSelection ==
    /\ ~panicked
    /\ ClearSelection(1)
    /\ date_ev' = DateEvent("time_frame_menu_state.clear_selection", time_frame, 0, 0, "Ok")
    /\ UNCHANGED <<time_frame, start_date, end_date, panicked>>

\* The items the input layer selects in the time-frame menu directly.
MenuPicks == {"FiveDays", "Max"}

\* Days since 1970-01-01 of a date of the proleptic Gregorian calendar.
DaysFromCivil(y, m, d) ==
    LET yy == IF m <= 2 THEN y - 1 ELSE y
        era == yy \div 400
        yoe == yy - era * 400
        mp == IF m > 2 THEN m - 3 ELSE m + 9
        doy == (153 * mp + 2) \div 5 + d - 1
        doe == yoe * 365 + yoe \div 4 - yoe \div 100 + doy
    IN  era * 146097 + doe - 719468

\* The instant y-m-d T h:mi:sec Z.
Timestamp(y, m, d, h, mi, sec) == and_hms(DaysFromCivil(y, m, d), h, mi, sec)

\* The reference instants of the calls: days from 2024-03-15 on and the day
\* of the epoch, each at midnight, at noon and at its last second.
MaxDayShift == 1
RefDays == {DaysFromCivil(2024, 3, 15) + k : k \in 0 .. MaxDayShift} \cup {0}
TimesOfDay == {0, 12 * 3600, SecondsPerDay - 1}
DtSet == {Days(d) + tod : d \in RefDays, tod \in TimesOfDay}

\* The values of Utc::now(): the last second of the fifth day after
\* 2024-03-15, some days later and some years later.
NowSet ==
    {Timestamp(2024, 3, 20, 23, 59, 59), Timestamp(2024, 3, 25, 12, 0, 0),
     Timestamp(2034, 3, 15, 12, 0, 0)}

(***************************************************************************)
(* FrameRateCounter                                                        *)
(*                                                                         *)
(* Instants and durations are in milliseconds.                             *)
(***************************************************************************)

\* The largest value of a u16.
U16Max == 65535

\* AtomicU16::fetch_add(1): the addition wraps around.
WrappingAdd(a, b) == (a + b) % (U16Max + 1)

\* `floor(elapsed as f64 / frames as f64) as u16`: the values the cast can
\* yield.  A quotient within the range of u16 is kept.  For a quotient
\* above it, and for the infinite quotient of a division by 0.0, the cast
\* saturates (Rust 1.45 and later) or was undefined (earlier), yielding
\* the low 16 bits in practice; NaN (0.0 / 0.0) gives 0.  A negative
\* quotient (last_interval moved past `now` by another thread) saturates
\* to 0 or yields its low 16 bits.
FrameTimeOutcomes(elapsed, n) ==
    IF n = 0
    THEN IF elapsed > 0 THEN {U16Max, 0} ELSE {0}
    ELSE LET q == elapsed \div n
         IN  IF q > U16Max THEN {U16Max, q % (U16Max + 1)}
             ELSE IF q < 0 THEN {0, q % (U16Max + 1)}
             ELSE {q}

\* FrameRateCounter::frame_time
FrameTimeOf(ft) == IF ft = 0 THEN None ELSE Some(ft)

FrameEvent(op, t, now, ret) ==
    [op |-> op, thread |-> t, now |-> now, ret |-> ret,
     elapsed |-> now - last_interval, count |-> fc_count + 1,
     pre_frames |-> frames, pre_frame_time |-> frame_time,
     pre_last_interval |-> last_interval]

IdleLocals == [now |-> 0, frames |-> 0, frame_time |-> 0]

\* FrameRateCounter::new(update_interval) at the instant 0, followed by k
\* calls of incr before the interval has elapsed: each of them has only
\* added 1 to frames.
FrameCounterAfter(interval, k) ==
    /\ frames = k % (U16Max + 1)
    /\ frame_time = 0
    /\ last_interval = 0
    /\ update_interval = interval
    /\ clock = 0
    /\ fc_pc = [t \in Threads |-> "idle"]
    /\ fc_loc = [t \in Threads |-> IdleLocals]
    /\ fc_count = k
    /\ fc_calls = 0
    /\ fc_total = k
    /\ fc_sampled = 0
    /\ fc_last = None
    /\ fc_stored = {0}
    /\ fc_ev = [op |-> "new", thread |-> 0, now |-> 0, ret |-> None,
                elapsed |-> 0, count |-> k, pre_frames |-> 0,
                pre_frame_time |-> 0, pre_last_interval |-> 0]

\* `FrameRateCounter::new(Duration::milliseconds(1_000))` of UiState::default
FrameCounterNew == FrameCounterAfter(1000, 0)

\* The calls of incr one behaviour makes.
MaxCalls == 3

\* FrameRateCounter::incr, called by one thread with no other call in
\* progress, delta milliseconds after the previous reading of the clock.
Incr(delta) ==
    /\ fc_calls < MaxCalls
    /\ \A t \in Threads : fc_pc[t] = "idle"
    /\ LET now == clock + delta
           n == WrappingAdd(frames, 1)
       IN
        /\ clock' = now
        /\ fc_calls' = fc_calls + 1
        /\ fc_total' = fc_total + 1
        /\ IF now >= last_interval + update_interval
           THEN \E ft \in FrameTimeOutcomes(now - last_interval, n) :
                    /\ frame_time' = ft
                    /\ frames' = 0
                    /\ last_interval' = now
                    /\ fc_count' = 0
                    /\ fc_sampled' = fc_sampled + n
                    /\ fc_last' = Some(ft)
                    /\ fc_stored' = fc_stored \cup {ft}
                    /\ fc_ev' = FrameEvent("incr", 1, now, Some(ft))
           ELSE /\ frames' = n
                /\ fc_count' = fc_count + 1
                /\ fc_ev' = FrameEvent("incr", 1, now, None)
                /\ UNCHANGED <<frame_time, last_interval, fc_sampled, fc_last, fc_stored>>
    /\ UNCHANGED <<update_interval, fc_pc, fc_loc>>

\* FrameRateCounter::frame_time, called by thread t.
FrameTime(t) ==
    /\ fc_ev' = [FrameEvent("frame_time", t, clock, FrameTimeOf(frame_time))
                    EXCEPT !.count = fc_count]
    /\ UNCHANGED <<frames, frame_time, last_interval, update_interval, clock,
                   fc_pc, fc_loc, fc_count, fc_calls, fc_total, fc_sampled,
                   fc_last, fc_stored>>

\* The statements of FrameRateCounter::incr, for calls that run at the
\* same time on several threads.  Every statement is one access to an
\* atomic, to the clock or to last_interval under its lock; Incr above is
\* these statements run without another thread in between.

Goto(t, pc) == fc_pc' = [fc_pc EXCEPT ![t] = pc]

\* self.frames.fetch_add(1, Relaxed)
IncrFetchAdd(t) ==
    /\ fc_pc[t] = "idle"
    /\ fc_calls < MaxCalls
    /\ frames' = WrappingAdd(frames, 1)
    /\ fc_calls' = fc_calls + 1
    /\ fc_total' = fc_total + 1
    /\ fc_count' = fc_count + 1
    /\ Goto(t, "now")
    /\ UNCHANGED <<frame_time, last_interval, update_interval, clock, fc_loc,
                   fc_sampled, fc_last, fc_stored, fc_ev>>

\* let now = Utc::now();
IncrNow(t, delta) ==
    /\ fc_pc[t] = "now"
    /\ clock' = clock + delta
    /\ fc_loc' = [fc_loc EXCEPT ![t].now = clock + delta]
    /\ Goto(t, "if")
    /\ UNCHANGED <<frames, frame_time, last_interval, update_interval,
                   fc_count, fc_calls, fc_total, fc_sampled, fc_last, fc_stored, fc_ev>>

\* if now >= *self.last_interval.read() + self.update_interval { ... } None
IncrIf(t) ==
    /\ fc_pc[t] = "if"
    /\ IF fc_loc[t].now >= last_interval + update_interval
       THEN /\ Goto(t, "load")
            /\ UNCHANGED <<fc_loc, fc_ev>>
       ELSE /\ Goto(t, "idle")
            /\ fc_loc' = [fc_loc EXCEPT ![t] = IdleLocals]
            /\ fc_ev' = [FrameEvent("incr", t, fc_loc[t].now, None)
                            EXCEPT !.count = fc_count]
    /\ UNCHANGED <<frames, frame_time, last_interval, update_interval, clock,
                   fc_count, fc_calls, fc_total, fc_sampled, fc_last, fc_stored>>

\* let frames = self.frames.load(Relaxed);
IncrLoad(t) ==
    /\ fc_pc[t] = "load"
    /\ fc_loc' = [fc_loc EXCEPT ![t].frames = frames]
    /\ Goto(t, "divide")
    /\ UNCHANGED <<frames, frame_time, last_interval, update_interval, clock,
                   fc_count, fc_calls, fc_total, fc_sampled, fc_last, fc_stored, fc_ev>>

\* let frame_time = floor((now - *self.last_interval.read())
\*                            .num_milliseconds() as f64 / frames as f64) as u16;
IncrDivide(t) ==
    /\ fc_pc[t] = "divide"
    /\ \E ft \in FrameTimeOutcomes(fc_loc[t].now - last_interval, fc_loc[t].frames) :
            fc_loc' = [fc_loc EXCEPT ![t].frame_time = ft]
    /\ fc_sampled' = fc_sampled + fc_loc[t].frames
    /\ Goto(t, "store_frame_time")
    /\ UNCHANGED <<frames, frame_time, last_interval, update_interval, clock,
                   fc_count, fc_calls, fc_total, fc_last, fc_stored, fc_ev>>

\* self.frame_time.store(frame_time, Relaxed);
IncrStoreFrameTime(t) ==
    /\ fc_pc[t] = "store_frame_time"
    /\ frame_time' = fc_loc[t].frame_time
    /\ fc_stored' = fc_stored \cup {fc_loc[t].frame_time}
    /\ Goto(t, "store_frames")
    /\ UNCHANGED <<frames, last_interval, update_interval, clock, fc_loc,
                   fc_count, fc_calls, fc_total, fc_sampled, fc_last, fc_ev>>

\* self.frames.store(0, Relaxed);
IncrStoreFrames(t) ==
    /\ fc_pc[t] = "store_frames"
    /\ frames' = 0
    /\ fc_count' = 0
    /\ Goto(t, "write")
    /\ UNCHANGED <<frame_time, last_interval, update_interval, clock, fc_loc,
                   fc_calls, fc_total, fc_sampled, fc_last, fc_stored, fc_ev>>

\* *self.last_interval.write() = now; return Some(frame_time)
IncrWrite(t) ==
    /\ fc_pc[t] = "write"
    /\ last_interval' = fc_loc[t].now
    /\ fc_last' = Some(fc_loc[t].frame_time)
    /\ fc_ev' = [FrameEvent("incr", t, fc_loc[t].now, Some(fc_loc[t].frame_time))
                    EXCEPT !.count = fc_loc[t].frames]
    /\ fc_loc' = [fc_loc EXCEPT ![t] = IdleLocals]
    /\ Goto(t, "idle")
    /\ UNCHANGED <<frames, frame_time, update_interval, clock,
                   fc_count, fc_calls, fc_total, fc_sampled, fc_stored>>

\* The time between two readings of the clock by the concurrent calls.
StepDeltaSet == {0, 1000}

\* The counts of calls made before the first interval has elapsed.
CountSet == {0, 2, 1999, U16Max, U16Max + 1}
\* The sampling intervals of the counters.
IntervalSet == {1000, 100000}
\* The time between two calls.
DeltaSet == {0, 20, 1000, 70000}

(***************************************************************************)
(* TimeFrame as text                                                       *)
(***************************************************************************)

Ok(v) == [ok |-> TRUE, val |-> v]
Err(e) == [ok |-> FALSE, val |-> e]

fmtWithDuplicateCode(tf) ==
    CASE tf = "FiveDays" -> "5D"
      [] tf = "OneMonth" -> "1M"
      [] tf = "ThreeMonths" -> "3M"
      [] tf = "SixMonths" -> "6M"
      [] tf = "YearToDate" -> "YTD"
      [] tf = "OneYear" -> "1M"
      [] tf = "TwoYears" -> "2Y"
      [] tf = "FiveYears" -> "5Y"
      [] tf = "TenYears" -> "10Y"
      [] tf = "Max" -> "MAX"

\* <TimeFrame as fmt::Display>::fmt
fmt(tf) ==
    CASE tf = "FiveDays" -> "5D"
      [] tf = "OneMonth" -> "1M"
      [] tf = "ThreeMonths" -> "3M"
      [] tf = "SixMonths" -> "6M"
      [] tf = "YearToDate" -> "YTD"
      [] tf = "OneYear" -> "1Y"
      [] tf = "TwoYears" -> "2Y"
      [] tf = "FiveYears" -> "5Y"
      [] tf = "TenYears" -> "10Y"
      [] tf = "Max" -> "MAX"

\* <TimeFrame as FromStr>::from_str
from_str(s) ==
    CASE s \in {"5D", "5d"} -> Ok("FiveDays")
      [] s \in {"1M", "1mo"} -> Ok("OneMonth")
      [] s \in {"3M", "3mo"} -> Ok("ThreeMonths")
      [] s \in {"6M", "6mo"} -> Ok("SixMonths")
      [] s \in {"YTD", "ytd"} -> Ok("YearToDate")
      [] s \in {"1Y", "1y"} -> Ok("OneYear")
      [] s \in {"2Y", "2y"} -> Ok("TwoYears")
      [] s \in {"5Y", "5y"} -> Ok("FiveYears")
      [] s \in {"10Y", "10y"} -> Ok("TenYears")
      [] s \in {"MAX", "max"} -> Ok("Max")
      [] s = "" -> Err("Empty")
      [] OTHER -> Err("Invalid")

\* Nothing has been formatted or parsed yet.
TextNew ==
    /\ tf_shown = None
    /\ tf_parsed = None

\* tf.to_string()
to_string(tf) ==
    /\ tf_shown' = Some([tf |-> tf, text |-> fmt(tf)])
    /\ UNCHANGED tf_parsed

\* s.parse::<TimeFrame>()
Parse(s) ==
    /\ tf_parsed' = Some([s |-> s, res |-> from_str(s)])
    /\ UNCHANGED tf_shown

\* The texts the user can type, besides the ones the program has shown.
TextSet ==
    {"5D", "5d", "1M", "1mo", "3M", "3mo", "6M", "6mo", "YTD", "ytd",
     "1Y", "1y", "2Y", "2y", "5Y", "5y", "10Y", "10y", "MAX", "max",
     "", "1m", "1W", "Max"}

(***************************************************************************)
(* The layout pass of a frame                                              *)
(*                                                                         *)
(* The thread that draws a frame calls clear_target_areas and then         *)
(* set_target_area for every target it renders.  Every one of these calls  *)
(* takes and releases the write lock of target_areas on its own, and a     *)
(* call of target_area by the thread that handles the mouse takes the read *)
(* lock for the time of `clone` only.                                      *)
(***************************************************************************)

\* The targets, rectangles and points of the layout passes: a rectangle
\* next to another one, and the cells in the first, in both and past both.
LayoutTargets == {"StockName", "TimeFrame", "TimeFrameMenu"}
LayoutRects == {Rect(0, 0, 1, 1), Rect(1, 0, 1, 1)}
LayoutPoints == {<<0, 0>>, <<1, 0>>, <<2, 0>>}

\* What a layout pass can report: one rectangle for every rendered target.
LayoutPlans ==
    UNION {[S -> LayoutRects] :
              S \in {T \in SUBSET LayoutTargets :
                        T # {} /\ Cardinality(T) <= MaxRendered}}

\* The layout passes one behaviour begins.
MaxPasses == 2

\* No frame has been drawn yet.
LayoutNew ==
    /\ lay_prev = Clear(<< >>)
    /\ lay_plan = Clear(<< >>)
    /\ lay_pending = {}
    /\ lay_order = << >>
    /\ lay_passes = 0
    /\ lay_seen = Clear(<< >>)

\* The layout pass begins: clear_target_areas.
BeginLayout(plan) ==
    /\ lay_pending = {}
    /\ lay_passes < MaxPasses
    /\ ClearTargetAreas
    /\ lay_prev' = target_areas
    /\ lay_plan' = plan
    /\ lay_pending' = DOMAIN plan
    /\ lay_order' = << >>
    /\ lay_passes' = lay_passes + 1
    /\ UNCHANGED lay_seen

\* The layout pass reports the next rendered target: set_target_area.
LayoutRegister(target) ==
    /\ target \in lay_pending
    /\ SetTargetArea(target, lay_plan[target])
    /\ lay_pending' = lay_pending \ {target}
    /\ lay_order' = Append(lay_order, target)
    /\ UNCHANGED <<lay_prev, lay_plan, lay_passes, lay_seen>>

\* The layout pass reports the target it reported last once more, with
\* another rectangle: set_target_area on a key the map holds.
LayoutRegisterAgain(area) ==
    /\ lay_order # << >>
    /\ LET target == lay_order[Len(lay_order)]
       IN  /\ area # target_areas[target]
           /\ SetTargetArea(target, area)
           /\ lay_plan' = [lay_plan EXCEPT ![target] = area]
    /\ UNCHANGED <<lay_prev, lay_pending, lay_order, lay_passes, lay_seen>>

\* The thread of the mouse calls target_area, at any time.
LayoutHitTest(x, y) ==
    /\ TargetArea(x, y)
    /\ lay_seen' = target_areas
    /\ UNCHANGED <<lay_prev, lay_plan, lay_pending, lay_order, lay_passes>>

(***************************************************************************)
(* The specifications                                                      *)
(***************************************************************************)

\* One MenuState shared by NumThreads threads.
InitMenu ==
    /\ \E its \in SeqsUpTo(ItemSet, MaxItems) : MenuNew(its)
    /\ RegNew
    /\ MenuIndexNew
    /\ DateNew
    /\ FrameCounterNew
    /\ TextNew
    /\ LayoutNew

NextMenu ==
    \/ \E t \in Threads, item \in ItemSet \cup {AbsentItem} :
            Select(t, item) /\ UNCHANGED <<reg_vars, date_vars, mi_ev, panicked, frame_vars, text_vars, layout_vars>>
    \/ \E t \in Threads : ClearSelection(t) /\ UNCHANGED <<reg_vars, date_vars, mi_ev, panicked, frame_vars, text_vars, layout_vars>>
    \/ \E t \in Threads : SelectPrevRead(t) /\ UNCHANGED <<reg_vars, date_vars, mi_ev, panicked, frame_vars, text_vars, layout_vars>>
    \/ \E t \in Threads : SelectPrevWrite(t) /\ UNCHANGED <<reg_vars, date_vars, mi_ev, panicked, frame_vars, text_vars, layout_vars>>
    \/ \E t \in Threads : SelectNextRead(t) /\ UNCHANGED <<reg_vars, date_vars, mi_ev, panicked, frame_vars, text_vars, layout_vars>>
    \/ \E t \in Threads : SelectNextWrite(t) /\ UNCHANGED <<reg_vars, date_vars, mi_ev, panicked, frame_vars, text_vars, layout_vars>>

SpecMenu == InitMenu /\ [][NextMenu]_vars

\* The registry of one UiState: the renderer registers, input handling reads.
InitRegistry ==
    /\ MenuNew(<< >>)
    /\ RegNew
    /\ MenuIndexNew
    /\ DateNew
    /\ FrameCounterNew
    /\ TextNew
    /\ LayoutNew

NextRegistry ==
    \/ \E target \in UiTarget, area \in RectSet :
            SetTargetArea(target, area) /\ UNCHANGED <<menu_vars, date_vars, mi_ev, panicked, frame_vars, text_vars, layout_vars>>
    \/ ClearTargetAreas /\ UNCHANGED <<menu_vars, date_vars, mi_ev, panicked, frame_vars, text_vars, layout_vars>>
    \/ \E x \in Coords, y \in Coords : TargetArea(x, y) /\ UNCHANGED <<menu_vars, date_vars, mi_ev, panicked, frame_vars, text_vars, layout_vars>>
    \/ \E len \in 0 .. MaxInputLen, target \in UiTarget :
            InputCursor(len, target) /\ UNCHANGED <<menu_vars, date_vars, mi_ev, panicked, frame_vars, text_vars, layout_vars>>

SpecRegistry == InitRegistry /\ [][NextRegistry]_vars

\* menu_index is a function of its arguments and the length of the item
\* list: the initial states draw them, the one action makes the call.
InitMenuIndex ==
    /\ \E k \in 0 .. MaxItems : MenuNew([i \in 1 .. k |-> "A"])
    /\ RegNew
    /\ DateNew
    /\ FrameCounterNew
    /\ TextNew
    /\ LayoutNew
    /\ \E menu_area \in MenuRectSet, x \in MenuCoords, y \in MenuCoords :
            MenuIndexCall(menu_area, x, y)

NextMenuIndex == MenuIndex /\ UNCHANGED <<menu_vars, reg_vars, date_vars, frame_vars, text_vars, layout_vars>>

SpecMenuIndex == InitMenuIndex /\ [][NextMenuIndex]_vars

\* UiState::default: the menu selects DEFAULT_TIME_FRAME.
InitUi ==
    /\ items = TimeFrameIter
    /\ selected = Position(TimeFrameIter, "OneMonth")
    /\ menu_pc = [t \in Threads |-> "idle"]
    /\ menu_rd = [t \in Threads |-> 0]
    /\ menu_ev = Event(0, "select", "done", Some("OneMonth"), None, None, "Ok")
    /\ RegNew
    /\ MenuIndexNew
    /\ DateNew
    /\ FrameCounterNew
    /\ TextNew
    /\ LayoutNew

NextUi ==
    \/ \E dt \in DtSet : ShiftDateRangeBefore(dt) /\ UNCHANGED <<menu_vars, reg_vars, mi_ev, frame_vars, text_vars, layout_vars>>
    \/ \E dt \in DtSet, now \in NowSet :
            ShiftDateRangeAfter(dt, now) /\ UNCHANGED <<menu_vars, reg_vars, mi_ev, frame_vars, text_vars, layout_vars>>
    \/ ClearDateRange /\ UNCHANGED <<menu_vars, reg_vars, mi_ev, frame_vars, text_vars, layout_vars>>
    \/ \E tf \in TimeFrame : SetTimeFrame(tf) /\ UNCHANGED <<reg_vars, mi_ev, frame_vars, text_vars, layout_vars>>
    \/ \E tf \in MenuPicks : MenuStateSelect(tf) /\ UNCHANGED <<reg_vars, mi_ev, frame_vars, text_vars, layout_vars>>
    \/ MenuStateClearSelection /\ UNCHANGED <<reg_vars, mi_ev, frame_vars, text_vars, layout_vars>>

SpecUi == InitUi /\ [][NextUi]_vars

\* One FrameRateCounter called by one thread at a time.
InitFrames ==
    /\ MenuNew(<< >>)
    /\ RegNew
    /\ MenuIndexNew
    /\ DateNew
    /\ TextNew
    /\ LayoutNew
    /\ \E interval \in IntervalSet, k \in CountSet : FrameCounterAfter(interval, k)

NextFrames ==
    \/ \E delta \in DeltaSet :
            Incr(delta) /\ UNCHANGED <<menu_vars, reg_vars, date_vars, mi_ev, panicked, text_vars, layout_vars>>
    \/ FrameTime(1) /\ UNCHANGED <<menu_vars, reg_vars, date_vars, mi_ev, panicked, text_vars, layout_vars>>

SpecFrames == InitFrames /\ [][NextFrames]_vars

\* TimeFrames formatted, and texts parsed: the ones typed and the last one
\* formatted.
InitText ==
    /\ MenuNew(<< >>)
    /\ RegNew
    /\ MenuIndexNew
    /\ DateNew
    /\ FrameCounterNew
    /\ TextNew
    /\ LayoutNew

NextText ==
    \/ \E tf \in TimeFrame :
            to_string(tf)
                /\ UNCHANGED <<menu_vars, reg_vars, date_vars, mi_ev, panicked, frame_vars, layout_vars>>
    \/ \E s \in TextSet \cup {Unwrap(sh).text : sh \in {tf_shown} \ {None}} :
            Parse(s)
                /\ UNCHANGED <<menu_vars, reg_vars, date_vars, mi_ev, panicked, frame_vars, layout_vars>>

SpecText == InitText /\ [][NextText]_vars

\* The thread that draws lays out frames while the thread of the mouse
\* calls target_area.
InitLayout ==
    /\ MenuNew(<< >>)
    /\ RegNew
    /\ MenuIndexNew
    /\ DateNew
    /\ FrameCounterNew
    /\ TextNew
    /\ LayoutNew

NextLayout ==
    \/ \E plan \in LayoutPlans :
            BeginLayout(plan)
                /\ UNCHANGED <<menu_vars, date_vars, mi_ev, panicked, frame_vars, text_vars>>
    \/ \E target \in LayoutTargets :
            LayoutRegister(target)
                /\ UNCHANGED <<menu_vars, date_vars, mi_ev, panicked, frame_vars, text_vars>>
    \/ \E area \in LayoutRects :
            LayoutRegisterAgain(area)
                /\ UNCHANGED <<menu_vars, date_vars, mi_ev, panicked, frame_vars, text_vars>>
    \/ \E p \in LayoutPoints :
            LayoutHitTest(p[1], p[2])
                /\ UNCHANGED <<menu_vars, date_vars, mi_ev, panicked, frame_vars, text_vars>>

SpecLayout == InitLayout /\ [][NextLayout]_vars

\* One FrameRateCounter called by several threads at the same time.
InitCounters ==
    /\ MenuNew(<< >>)
    /\ RegNew
    /\ MenuIndexNew
    /\ DateNew
    /\ TextNew
    /\ LayoutNew
    /\ FrameCounterNew

NextCounters ==
    \/ \E t \in Threads :
            IncrFetchAdd(t)
                /\ UNCHANGED <<menu_vars, reg_vars, date_vars, mi_ev, panicked, text_vars, layout_vars>>
    \/ \E t \in Threads, delta \in StepDeltaSet :
            IncrNow(t, delta)
                /\ UNCHANGED <<menu_vars, reg_vars, date_vars, mi_ev, panicked, text_vars, layout_vars>>
    \/ \E t \in Threads :
            IncrIf(t)
                /\ UNCHANGED <<menu_vars, reg_vars, date_vars, mi_ev, panicked, text_vars, layout_vars>>
    \/ \E t \in Threads :
            IncrLoad(t)
                /\ UNCHANGED <<menu_vars, reg_vars, date_vars, mi_ev, panicked, text_vars, layout_vars>>
    \/ \E t \in Threads :
            IncrDivide(t)
                /\ UNCHANGED <<menu_vars, reg_vars, date_vars, mi_ev, panicked, text_vars, layout_vars>>
    \/ \E t \in Threads :
            IncrStoreFrameTime(t)
                /\ UNCHANGED <<menu_vars, reg_vars, date_vars, mi_ev, panicked, text_vars, layout_vars>>
    \/ \E t \in Threads :
            IncrStoreFrames(t)
                /\ UNCHANGED <<menu_vars, reg_vars, date_vars, mi_ev, panicked, text_vars, layout_vars>>
    \/ \E t \in Threads :
            IncrWrite(t)
                /\ UNCHANGED <<menu_vars, reg_vars, date_vars, mi_ev, panicked, text_vars, layout_vars>>
    \/ \E t \in Threads :
            FrameTime(t)
                /\ UNCHANGED <<menu_vars, reg_vars, date_vars, mi_ev, panicked, text_vars, layout_vars>>

SpecCounters == InitCounters /\ [][NextCounters]_vars

(***************************************************************************)
(* Claims about MenuState, checked under SpecMenu.                         *)
(***************************************************************************)

NavOps == {"select_prev", "select_next"}

\* C1: for a menu built from a non-empty item list, in every state reached
\* by any interleaving of select, select_next, select_prev and
\* clear_selection, the selected index is absent or a valid index
\* 0 .. len-1, so selected() yields none or an element of the list.
C1_SelectedIndexValid ==
    Len(items) > 0 =>
        /\ selected = None \/ Unwrap(selected) \in 0 .. Len(items) - 1
        /\ \/ MenuSelected(items, selected) = None
           \/ \E i \in 1 .. Len(items) : MenuSelected(items, selected) = Some(items[i])

\* C1 witness: select_next has returned with the last index of a full-length
\* list selected, while another thread is in the middle of a navigation.
C1_Witness ==
    /\ Len(items) = MaxItems
    /\ menu_ev.op = "select_next" /\ menu_ev.phase = "done" /\ menu_ev.res = "Ok"
    /\ selected = Some(Len(items) - 1)
    /\ \E t \in Threads : menu_pc[t] # "idle"

\* C2: select_next and select_prev that find nothing selected fail with
\* NoSelection (they return at once, writing nothing), and the menu still
\* has no selection afterwards.
C2_NavWithoutSelectionFails ==
    (menu_ev.op \in NavOps /\ menu_ev.saw = None) =>
        /\ menu_ev.res = "NoSelection"
        /\ menu_ev.phase = "done"
        /\ menu_pc[menu_ev.thread] = "idle"
        /\ selected = None

\* C2 witness: select_next on [A, B, ..] with no selection has failed.
C2_Witness ==
    /\ Len(items) = MaxItems /\ items[1] = "A" /\ items[2] = "B"
    /\ menu_ev.op = "select_next" /\ menu_ev.res = "NoSelection"
    /\ menu_ev.pre = None /\ selected = None

\* C3: with index i selected in a list of n items (i is the index the call
\* read and is still the selection when the call writes), select_next leaves
\* the selection at min(i+1, n-1) and select_prev at max(i-1, 0).
C3_NavClamps ==
    (/\ menu_ev.op \in NavOps /\ menu_ev.phase = "done" /\ menu_ev.res = "Ok"
     /\ menu_ev.pre = menu_ev.saw) =>
        LET i == Unwrap(menu_ev.saw)
            n == Len(items)
        IN  IF menu_ev.op = "select_next"
            THEN selected = Some(Min(i + 1, n - 1))
            ELSE selected = Some(Max(i - 1, 0))

\* C3 witness: select_next on the last item of a full-length list was a no-op.
C3_Witness ==
    /\ Len(items) = MaxItems
    /\ menu_ev.op = "select_next" /\ menu_ev.phase = "done" /\ menu_ev.res = "Ok"
    /\ menu_ev.saw = Some(MaxItems - 1) /\ menu_ev.pre = Some(MaxItems - 1)
    /\ selected = Some(MaxItems - 1)

\* C4: select(item) sets the selection to the lowest index whose element
\* equals item when the list holds it; otherwise it fails with NotFound and
\* the selection is what it was before the call.
C4_SelectFirstMatch ==
    menu_ev.op = "select" =>
        LET item == Unwrap(menu_ev.arg)
            hits == {i \in 0 .. Len(items) - 1 : items[i + 1] = item}
        IN  IF hits # {}
            THEN /\ menu_ev.res = "Ok"
                 /\ \E i \in hits : /\ \A j \in hits : i <= j
                                    /\ selected = Some(i)
            ELSE /\ menu_ev.res = "NotFound"
                 /\ selected = menu_ev.pre

\* C4 witness: select(A) on a list whose second and third items are both A,
\* made while the third was selected.
C4_Witness ==
    /\ Len(items) = 3 /\ items[1] = "B" /\ items[2] = "A" /\ items[3] = "A"
    /\ menu_ev.op = "select" /\ menu_ev.arg = Some("A") /\ menu_ev.pre = Some(2)
    /\ selected = Some(1)

(***************************************************************************)
(* Claims about the registry of target areas, checked under SpecRegistry.  *)
(***************************************************************************)

\* The cells a rectangle occupies: left <= x < left + width and
\* top <= y < top + height.
Contains(area, x, y) ==
    /\ area.x <= x /\ x < area.x + area.width
    /\ area.y <= y /\ y < area.y + area.height

\* The registered targets whose rectangle contains the point.
Containing(x, y) == {t \in DOMAIN target_areas : Contains(target_areas[t], x, y)}

\* The greatest target of a non-empty set in the order (zindex, then
\* declaration order).
Topmost(S) ==
    CHOOSE t \in S : \A u \in S \ {t} :
        \/ zindex(u) < zindex(t)
        \/ zindex(u) = zindex(t) /\ Discriminant(u) < Discriminant(t)

\* C5: hit_test returns the topmost match: among the registered targets
\* whose rectangle contains the point, the greatest in the order (zindex,
\* then declaration order), together with its registered rectangle.
C5_TopmostMatch ==
    (reg_ev.op = "target_area" /\ Containing(reg_ev.x, reg_ev.y) # {}) =>
        LET g == Topmost(Containing(reg_ev.x, reg_ev.y))
        IN  reg_ev.ret = Some(<<g, target_areas[g]>>)

\* C6: hit_test returns a target only if the point lies in the cells its
\* registered rectangle occupies, and none when no registered rectangle
\* contains the point.
C6_HitOnlyInside ==
    reg_ev.op = "target_area" =>
        /\ IsSome(reg_ev.ret) =>
              /\ Unwrap(reg_ev.ret)[1] \in DOMAIN target_areas
              /\ Unwrap(reg_ev.ret)[2] = target_areas[Unwrap(reg_ev.ret)[1]]
              /\ Contains(Unwrap(reg_ev.ret)[2], reg_ev.x, reg_ev.y)
        /\ Containing(reg_ev.x, reg_ev.y) = {} => reg_ev.ret = None

\* C7: after clear_target_areas and until the next set_target_area the
\* registry holds no entry: target_area returns none at every point and
\* input_cursor none for every target; and input_cursor returns none
\* exactly for the targets not registered since the last clear.
C7_ClearEmptiesRegistry ==
    /\ since_clear = {} =>
          /\ \A x \in Coords, y \in Coords : target_area(target_areas, x, y) = None
          /\ reg_ev.op = "target_area" => reg_ev.ret = None
    /\ \A t \in UiTarget, len \in 0 .. MaxInputLen :
          input_cursor(target_areas, len, t) = None <=> t \notin since_clear
    /\ reg_ev.op = "input_cursor" =>
          (reg_ev.ret = None <=> reg_ev.target \notin since_clear)

\* C7 witness: clear_target_areas has just dropped a full frame of entries,
\* the top-level menu among them.
C7_Witness ==
    /\ reg_ev.op = "clear_target_areas" /\ reg_ev.x = MaxRendered
    /\ since_clear = {}
    /\ target_area(target_areas, 1, 0) = None
    /\ input_cursor(target_areas, 0, "StockSymbolInput") = None

(***************************************************************************)
(* Claims about menu_index, checked under SpecMenuIndex.                   *)
(***************************************************************************)

\* The interior of a menu: its rectangle without the one-cell border.
InInterior(area, x, y) ==
    /\ area.x + 1 <= x /\ x < area.x + area.width - 1
    /\ area.y + 1 <= y /\ y < area.y + area.height - 1

\* The number of rows of the interior; a rectangle too small to hold its
\* border has an empty interior.
InteriorHeight(area) ==
    IF area.width < 2 \/ area.height < 2 THEN 0 ELSE area.height - 2

\* C8: menu_index returns an index n only for a point inside the interior
\* of the menu and a list no longer than the interior height, and then
\* n = y - interior top and n < item count; for every point outside the
\* interior it returns none; for a list longer than the interior height it
\* never returns an index (it returns none or rejects, here by panicking,
\* which is accepted for points outside the interior as well).
C8_MenuIndexInsideInterior ==
    mi_ev.op = "menu_index" =>
        /\ mi_ev.ret.kind = "Some" =>
              /\ InInterior(mi_ev.area, mi_ev.x, mi_ev.y)
              /\ Len(items) <= InteriorHeight(mi_ev.area)
              /\ mi_ev.ret.n = mi_ev.y - (mi_ev.area.y + 1)
              /\ mi_ev.ret.n < Len(items)
        /\ ~InInterior(mi_ev.area, mi_ev.x, mi_ev.y) =>
              \/ mi_ev.ret.kind = "None"
              \/ mi_ev.ret.kind = "Panic" /\ Len(items) > InteriorHeight(mi_ev.area)
        /\ Len(items) > InteriorHeight(mi_ev.area) => mi_ev.ret.kind # "Some"

(***************************************************************************)
(* Claims about the date range, checked under SpecUi.                      *)
(***************************************************************************)

\* C9: in every state reached from the default UI state by
\* shift_date_range_before, shift_date_range_after, clear_date_range and
\* set_time_frame, start and end are both absent or both present, and when
\* present start <= end, start is 00:00:00 of its day and end is 23:59:59
\* of its day.
C9_DateRangeWellFormed ==
    /\ start_date = None <=> end_date = None
    /\ IsSome(start_date) /\ IsSome(end_date) =>
          /\ Unwrap(start_date) <= Unwrap(end_date)
          /\ Unwrap(start_date) % SecondsPerDay = 0
          /\ Unwrap(end_date) % SecondsPerDay = 23 * 3600 + 59 * 60 + 59

\* C9 witness: a range is present that shift_date_range_before derived from
\* an instant in the middle of a day.
C9_Witness ==
    /\ date_ev.op = "shift_date_range_before" /\ date_ev.res = "Ok"
    /\ date_ev.dt % SecondsPerDay = 12 * 3600
    /\ time_frame = "FiveDays"
    /\ IsSome(start_date) /\ IsSome(end_date)

\* C10: for a time frame with a fixed duration of D days and a reference dt
\* with any time of day, shift_date_range_before sets end to 23:59:59 of
\* the day preceding dt's day and start to 00:00:00 of the day D-1 days
\* before end's day; the range covers exactly D whole days and ends before
\* dt's day starts.  OneMonth and dt = 2024-03-15T12:00:00Z give
\* start = 2024-02-14T00:00:00Z and end = 2024-03-14T23:59:59Z.
C10_BeforeCoversDDays ==
    (date_ev.op = "shift_date_range_before" /\ IsSome(duration(time_frame))) =>
        LET D == Unwrap(duration(time_frame)) \div SecondsPerDay
            dt_day == date_ev.dt \div SecondsPerDay
            end_day == dt_day - 1
            start_day == end_day - (D - 1)
        IN  /\ date_ev.res = "Ok"
            /\ end_date = Some(end_day * SecondsPerDay + 23 * 3600 + 59 * 60 + 59)
            /\ start_date = Some(start_day * SecondsPerDay)
            /\ Unwrap(end_date) + 1 - Unwrap(start_date) = D * SecondsPerDay
            /\ Unwrap(end_date) < dt_day * SecondsPerDay
            /\ (time_frame = "OneMonth" /\ date_ev.dt = Timestamp(2024, 3, 15, 12, 0, 0)) =>
                  /\ start_date = Some(Timestamp(2024, 2, 14, 0, 0, 0))
                  /\ end_date = Some(Timestamp(2024, 3, 14, 23, 59, 59))

\* C10 witness: the example of the claim has been computed.
C10_Witness ==
    /\ date_ev.op = "shift_date_range_before" /\ date_ev.res = "Ok"
    /\ time_frame = "OneMonth"
    /\ date_ev.dt = Timestamp(2024, 3, 15, 12, 0, 0)
    /\ end_date = Some(Timestamp(2024, 3, 14, 23, 59, 59))

\* C11: for a time frame with a fixed duration of D days, every dt and
\* every current time now, shift_date_range_after ends in one of two
\* states: if the computed end (23:59:59 of the day D-1 days after the day
\* following dt's day) is later than now, the range is absent, also when a
\* range was present before the call; otherwise start is 00:00:00 of the
\* day following dt's day, end is the computed end, the range lies strictly
\* after dt's day and end <= now.
C11_AfterRangeOrCleared ==
    (date_ev.op = "shift_date_range_after" /\ IsSome(duration(time_frame))) =>
        LET D == Unwrap(duration(time_frame)) \div SecondsPerDay
            dt_day == date_ev.dt \div SecondsPerDay
            start_day == dt_day + 1
            computed_end == (start_day + D - 1) * SecondsPerDay + 23 * 3600 + 59 * 60 + 59
        IN  /\ date_ev.res = "Ok"
            /\ IF computed_end > date_ev.now
               THEN start_date = None /\ end_date = None
               ELSE /\ start_date = Some(start_day * SecondsPerDay)
                    /\ end_date = Some(computed_end)
                    /\ Unwrap(start_date) >= (dt_day + 1) * SecondsPerDay
                    /\ Unwrap(start_date) > date_ev.dt
                    /\ Unwrap(end_date) <= date_ev.now

\* C11 witness: both outcomes are reached; here a range that was present is
\* gone after a call whose computed end lies in the future.
C11_Witness ==
    /\ date_ev.op = "shift_date_range_after" /\ date_ev.res = "Ok"
    /\ date_ev.pre
    /\ time_frame = "OneMonth"
    /\ start_date = None /\ end_date = None

\* C12: after set_time_frame(tf) has returned successfully, from whatever
\* state it was called in, the active time frame is tf, the selected item
\* of the time-frame menu is tf and the date range is absent; the same
\* holds of the default state with tf = OneMonth.
C12_SetTimeFramePostcondition ==
    /\ (date_ev.op = "set_time_frame" /\ date_ev.res = "Ok") =>
          /\ time_frame = date_ev.tf
          /\ MenuSelected(items, selected) = Some(date_ev.tf)
          /\ start_date = None /\ end_date = None
    /\ date_ev.op = "default" =>
          /\ time_frame = "OneMonth"
          /\ MenuSelected(items, selected) = Some("OneMonth")
          /\ start_date = None /\ end_date = None

\* C12 witness: set_time_frame(TenYears) has returned; it was called with a
\* date range present.
C12_Witness ==
    /\ date_ev.op = "set_time_frame" /\ date_ev.res = "Ok"
    /\ date_ev.tf = "TenYears" /\ date_ev.pre
    /\ time_frame = "TenYears" /\ start_date = None

\* C16: in every state reached from the default UI state by set_time_frame,
\* shift_date_range_before, shift_date_range_after and clear_date_range, a
\* present date range implies that the active time frame is neither
\* YearToDate nor Max: the two shifts fail fast on those frames without
\* setting a range, and a change of the time frame clears the range.
C16_RangeOnlyForFixedDuration ==
    /\ (IsSome(start_date) \/ IsSome(end_date)) =>
          time_frame \notin {"YearToDate", "Max"}
    /\ (date_ev.op \in {"shift_date_range_before", "shift_date_range_after"}
            /\ time_frame \in {"YearToDate", "Max"}) =>
          /\ date_ev.res = "Panic" /\ panicked
          /\ start_date = None /\ end_date = None
    /\ (date_ev.op = "set_time_frame" /\ date_ev.pre) =>
          start_date = None /\ end_date = None

\* C16 witness: shift_date_range_after was called with Max active and has
\* panicked, leaving the range absent.
C16_Witness ==
    /\ date_ev.op = "shift_date_range_after" /\ date_ev.res = "Panic"
    /\ time_frame = "Max" /\ panicked
    /\ start_date = None /\ end_date = None


(***************************************************************************)
(* Claims about FrameRateCounter                                           *)
(***************************************************************************)

\* C13: a call of incr returns a sample exactly when the time elapsed since
\* the last reset is at least the sampling interval.  The sample is then
\* floor(elapsed_ms / calls since the last reset, this one included), it is
\* the stored sample, frames is 0 and last_interval is now.  Otherwise the
\* call returns none, has added one to frames and has changed neither the
\* stored sample nor last_interval.
C13_IncrContract ==
    fc_ev.op = "incr" =>
        /\ IsSome(fc_ev.ret) <=> fc_ev.elapsed >= update_interval
        /\ IsSome(fc_ev.ret) =>
              /\ Unwrap(fc_ev.ret) = fc_ev.elapsed \div fc_ev.count
              /\ frame_time = Unwrap(fc_ev.ret)
              /\ frames = 0
              /\ last_interval = fc_ev.now
        /\ ~IsSome(fc_ev.ret) =>
              /\ frames = fc_ev.pre_frames + 1
              /\ frame_time = fc_ev.pre_frame_time
              /\ last_interval = fc_ev.pre_last_interval

\* C14: frame_time() returns none before the first call of incr that
\* returned a sample, and afterwards the value the last such call returned,
\* whatever that value is.
C14_FrameTimeIsLastSample ==
    fc_ev.op = "frame_time" => fc_ev.ret = fc_last

\* C20: after k calls of incr since the last reset, whatever k is, frames
\* holds k, and the frame count a sample is computed from is the number of
\* calls since the last reset, this one included.
C20_CounterNeverWraps ==
    /\ frames = fc_count
    /\ (fc_ev.op = "incr" /\ IsSome(fc_ev.ret)) =>
          WrappingAdd(fc_ev.pre_frames, 1) = fc_ev.count

(***************************************************************************)
(* Claims about TimeFrame as text                                          *)
(***************************************************************************)

\* C15: parsing the text a TimeFrame is formatted as gives that TimeFrame
\* back, and no other TimeFrame is formatted as the same text.
C15_ParseOfDisplay ==
    IsSome(tf_shown) =>
        /\ \A t \in TimeFrame :
              fmt(t) = Unwrap(tf_shown).text => t = Unwrap(tf_shown).tf
        /\ (IsSome(tf_parsed) /\ Unwrap(tf_parsed).s = Unwrap(tf_shown).text) =>
              Unwrap(tf_parsed).res = Ok(Unwrap(tf_shown).tf)

C15_Witness ==
    /\ IsSome(tf_shown) /\ IsSome(tf_parsed)
    /\ Unwrap(tf_shown).tf = "TenYears"
    /\ Unwrap(tf_parsed).s = Unwrap(tf_shown).text
    /\ Unwrap(tf_parsed).res = Ok("TenYears")

(***************************************************************************)
(* Claims about the layout pass                                            *)
(***************************************************************************)

\* The place of target t in the sequence ks.
IndexIn(ks, t) == CHOOSE i \in 1 .. Len(ks) : ks[i] = t

\* C17, as stated: target_area examines two targets of the map in the
\* reverse of the order in which the frame reported them.
C17_ScanReversesRegistration ==
    \A i, j \in 1 .. Len(lay_order) :
        i < j =>
            IndexIn(RevKeys(DOMAIN target_areas), lay_order[j])
                < IndexIn(RevKeys(DOMAIN target_areas), lay_order[i])

\* The targets from the one target_area examines last to the one it
\* examines first: by zindex, and by place in the declaration within one
\* zindex.
ScanOrder == <<"StockName", "StockSymbol", "TimeFrame", "StockSymbolInput", "TimeFrameMenu">>

\* C17, amended: the map holds one rectangle for every target reported
\* since the clear, the one reported last for it, and target_area returns,
\* of the entries its test accepts, the one of the highest zindex and,
\* within that zindex, the one declared last, in whatever order the targets
\* were reported.
C17_ScanByZindex ==
    /\ DOMAIN target_areas = {lay_order[i] : i \in 1 .. Len(lay_order)}
    /\ Len(lay_order) = Cardinality(DOMAIN target_areas)
    /\ reg_ev.op = "set_target_area" =>
          target_areas[reg_ev.target] = Unwrap(reg_ev.area)
    /\ reg_ev.op = "target_area" =>
          LET accepted == {t \in DOMAIN lay_seen : Hit(lay_seen[t], reg_ev.x, reg_ev.y)}
          IN  IF accepted = {} THEN reg_ev.ret = None
              ELSE /\ IsSome(reg_ev.ret)
                   /\ Unwrap(reg_ev.ret)[1] \in accepted
                   /\ Unwrap(reg_ev.ret)[2] = lay_seen[Unwrap(reg_ev.ret)[1]]
                   /\ \A t \in accepted :
                          IndexIn(ScanOrder, t) <= IndexIn(ScanOrder, Unwrap(reg_ev.ret)[1])

C17_Witness ==
    /\ lay_order = <<"TimeFrameMenu", "StockName">>
    /\ reg_ev.op = "target_area"
    /\ lay_seen = target_areas
    /\ \A t \in DOMAIN lay_seen : Hit(lay_seen[t], reg_ev.x, reg_ev.y)
    /\ reg_ev.ret = Some(<<"TimeFrameMenu", lay_seen["TimeFrameMenu"]>>)

\* C18: a call of target_area made while frames are laid out reads either
\* all the target areas of the previous frame or all the target areas of
\* the new frame.
C18_ReaderSeesWholeFrame ==
    reg_ev.op = "target_area" => lay_seen \in {lay_prev, lay_plan}

(***************************************************************************)
(* Claims about concurrent calls on FrameRateCounter                       *)
(***************************************************************************)

\* C19: with calls of incr and of frame_time running at the same time, the
\* increment of every call of incr is in the frame count of exactly one
\* sample or still in frames once no call is under way, and frame_time
\* returns none or a value that a call of incr stored.
C19_NoLostIncrementNoTornSample ==
    /\ (\A t \in Threads : fc_pc[t] = "idle") => fc_total = fc_sampled + frames
    /\ (fc_ev.op = "frame_time" /\ IsSome(fc_ev.ret)) =>
          Unwrap(fc_ev.ret) \in fc_stored

============================================================================
